---- MODULE Spec2Model ----
(***************************************************************************)
(* FiFoFile (src/fifofile/fifofile.py): a reader generator that polls a    *)
(* named pipe with epoll, yields lines, reopens the pipe on hangup and     *)
(* ends when a readable event meets the stop flag; plus the line writer    *)
(* and the constructor.                                                    *)
(*                                                                         *)
(* The kernel side of the named pipe is modelled as Linux implements it:   *)
(*   - a blocking open for read returns once a writer has the pipe open    *)
(*     (or has opened it since the open began), and the converse for a     *)
(*     blocking open for write;                                            *)
(*   - epoll reports IN while the kernel buffer holds data and HUP while   *)
(*     no writer has the pipe open; a closed descriptor leaves the epoll   *)
(*     set by itself;                                                      *)
(*   - the kernel buffer is discarded when the last open handle closes;    *)
(*   - a write with no reader fails (EPIPE).                               *)
(* The reader's file object is Python's buffered text file: readline()     *)
(* drains the kernel buffer into the object's own buffer and returns the   *)
(* first line of it; close() drops what is left in that buffer.            *)
(*                                                                         *)
(* The reader generator runs in one thread; stop_reading() may be called   *)
(* from any thread at any time.  The writer is another process using its   *)
(* own instance (writeline opens, writes and closes), at most one          *)
(* writeline call at a time.  __exit__ is called by the thread that        *)
(* consumes the generator, as in the class docstring (lines 57-59), hence  *)
(* only while the generator is not executing.  Two events come from the    *)
(* environment: an exception raised by poll() in the polling thread        *)
(* (PollInterrupt), and, in SpecForeign only, another process reading the  *)
(* pipe (ForeignRead), which is how a readable event can find no text.     *)
(* Failures the OS may answer with are environment choices too: a         *)
(* failing open, mkfifo or register.  SpecErr adds a poll that reports the *)
(* error bit alone (PollError).                                            *)
(*                                                                         *)
(* SpecStatic runs the static methods create_fifo_file and is_fifo_file on *)
(* a path that other processes may remove or replace.  SpecSideBySide runs *)
(* read(size) and readline(strip_line), each translated from its own       *)
(* lines into a step function, on the same sequence of inputs.             *)
(***************************************************************************)
EXTENDS Integers, Sequences, FiniteSets, TLC

\* ---- bounds of the model ----
MaxWrites == 2
MaxStopCalls == 2
MaxSteps == 5

\* ---- data ----
NL == "\n"
Whitespace == {" ", "\t", NL}
\* the texts handed to writeline(): an unterminated text, a terminated line, a blank line
Lines == {<<"a">>, <<"b", NL>>, <<NL>>}
Modes == {"0o644", "abc"}
\* the create_mode values handed to create_fifo_file(), its default among them
CreateModes == {"0o666", "0o644", "abc"}
\* what the OS does with mkfifo() and chmod() in create_fifo_file()
OsOutcomes == {"ok", "mkfifo_fails", "chmod_fails"}
\* the texts a read primitive returns in the side-by-side run
Texts == {<<"a">>, <<" ", "b", NL>>}

VARIABLES
    node,       \* what the path designates: "missing", "fifo" or "file" (regular file)
    perm,       \* permission of the node ("none" when missing)
    ctor,       \* outcome of __init__: "none" (not yet called), "ok" or the error raised
    createReq,  \* the create_if_not_exists argument of __init__
    ctorMode,   \* the create_mode __init__ handed to int(create_mode, 8), else "none"
    stop,       \* self.__stop_event
    stopCalls,  \* calls of stop_reading() so far
    stopInLoop, \* the flag was set while the loop was running
    pc,         \* position of the readline() generator
    strip,      \* the strip_line argument
    FIFO,       \* the local FIFO: a handle id, or 0 for False / not yet opened
    nfd,        \* read handles opened so far (the next handle is nfd + 1)
    openFds,    \* read handles opened by the generator and still open
    pollset,    \* handles registered in the epoll object
    event,      \* event mask returned by the last poll
    pybuf,      \* text held in the buffer of the reader's file object
    yielded,    \* items delivered to the consumer, in order
    wseen,      \* a pending open-for-read has met a writer
    rseen,      \* a pending open-for-write has met a reader
    wpc,        \* position of the writeline() call
    wline,      \* the line argument of the writeline() call in progress
    wpending,   \* the writer's file object still buffers the line
    wres,       \* what the last writeline() call gave its caller; while it runs, "none"
                \* or the error raised and not yet out of the finally clause
    pipe,       \* kernel buffer of the named pipe
    written,    \* texts that entered the kernel buffer, in order
    stopTimeout,\* a poll wait that began with the flag set ended by timeout
    nUnreg,     \* unregister() calls the generator made for the current handle
    nClose,     \* close() calls the generator made for the current handle
    emptyRead,  \* a readable event's read returned no text
    yieldsAfterStop, \* items yielded while the flag was set
    smCall,     \* the last static-method call: its name, arguments and the path before
    smRes,      \* what that call returned or raised
    lk          \* read(size) and readline(False) run side by side on the same inputs

fsVars == <<node, perm, ctor, createReq, ctorMode>>
stopVars == <<stop, stopCalls, stopInLoop>>
rdVars == <<pc, strip, FIFO, nfd, openFds, pollset, event, pybuf, yielded>>
wrVars == <<wpc, wline, wpending, wres>>
hsVars == <<wseen, rseen>>
histVars == <<stopTimeout, nUnreg, nClose, emptyRead, yieldsAfterStop>>
auxVars == <<smCall, smRes, lk>>
vars == <<node, perm, ctor, createReq, ctorMode, stop, stopCalls, stopInLoop, pc, strip, FIFO, nfd,
          openFds, pollset, event, pybuf, yielded, wseen, rseen, wpc, wline,
          wpending, wres, pipe, written, stopTimeout, nUnreg, nClose, emptyRead,
          yieldsAfterStop, smCall, smRes, lk>>

\* ---- pure helpers ----
HasNL(s) == \E i \in 1..Len(s) : s[i] = NL
FirstNL(s) == CHOOSE i \in 1..Len(s) : s[i] = NL /\ \A j \in 1..(i - 1) : s[j] # NL

RECURSIVE LStrip(_)
LStrip(s) == IF s # <<>> /\ Head(s) \in Whitespace THEN LStrip(Tail(s)) ELSE s
RECURSIVE RStrip(_)
RStrip(s) ==
    IF s # <<>> /\ s[Len(s)] \in Whitespace THEN RStrip(SubSeq(s, 1, Len(s) - 1)) ELSE s
\* str.strip(): leading and trailing whitespace removed
read_line_stripped(s) == RStrip(LStrip(s))
read_line(s, strip_line) == IF strip_line THEN read_line_stripped(s) ELSE s

RECURSIVE Concat(_)
Concat(ss) == IF ss = <<>> THEN <<>> ELSE Head(ss) \o Concat(Tail(ss))

\* int(create_mode, 8) succeeds
ValidMode(m) == m \in {"0o644", "0o666"}

\* no static method was called since the path last changed by other means
NoCall == [op |-> "none", mode |-> "none", raise_if_exists |-> FALSE, os |-> "none",
           node |-> "none", perm |-> "none"]

\* ---- the two generators as step functions of their inputs ----
\* A generator's control state: where it stands, whether its handle is open and
\* registered, and the operations it has performed so far.
GenInit == [pc |-> "init", open |-> FALSE, reg |-> FALSE, ops |-> <<>>]
\* The inputs: the outcome of the first open, of a poll wait (with the flag's value
\* and the read primitive's result for a readable event), of an open and register
\* in the reopen retry, and the consumer's request for the next item.
GenInputs ==
    [kind : {"call_ok", "call_fail", "timeout", "in_stop", "in_empty", "in_raise", "hup",
             "err", "open_ok", "open_fail", "reg_fail", "resume"}, text : {<<>>}]
    \cup [kind : {"in_text"}, text : Texts]
\* the inputs a generator standing at pc can receive
InputsAt(at) ==
    {i \in GenInputs :
        \/ at = "init" /\ i.kind \in {"call_ok", "call_fail"}
        \/ at = "poll" /\ i.kind \in {"timeout", "in_stop", "in_empty", "in_raise",
                                        "in_text", "hup", "err"}
        \/ at = "reopen" /\ i.kind \in {"open_ok", "open_fail", "reg_fail"}
        \/ at = "yield" /\ i.kind = "resume"}
Did(g, at, isOpen, isReg, done) ==
    [pc |-> at, open |-> isOpen, reg |-> isReg, ops |-> g.ops \o done]

\* read(size) as it would be if its hangup branch did not reopen
ReadStepNoReopen(g, i) ==
    CASE i.kind = "call_ok" -> Did(g, "poll", TRUE, TRUE, <<<<"open">>, <<"register">>>>)
      [] i.kind = "call_fail" -> Did(g, "OpenFailed", FALSE, FALSE, <<<<"open">>, <<"raise">>>>)
      [] i.kind = "timeout" -> Did(g, "poll", g.open, g.reg, <<<<"poll">>>>)
      [] i.kind = "in_stop" ->
            Did(g, "Closed", FALSE, FALSE,
                <<<<"poll">>, <<"unregister">>, <<"close">>, <<"return">>>>)
      [] i.kind = "in_text" ->
            Did(g, "yield", g.open, g.reg, <<<<"poll">>, <<"read">>, <<"yield">> \o i.text>>)
      [] i.kind \in {"in_empty", "in_raise"} ->
            Did(g, "poll", g.open, g.reg, <<<<"poll">>, <<"read">>>>)
      [] i.kind = "hup" ->
            Did(g, "Closed", FALSE, FALSE, <<<<"poll">>, <<"unregister">>, <<"close">>>>)
      [] i.kind = "err" -> Did(g, "poll", g.open, g.reg, <<<<"poll">>>>)
      [] i.kind = "open_ok" -> Did(g, "poll", TRUE, TRUE, <<<<"open">>, <<"register">>>>)
      [] i.kind = "open_fail" -> Did(g, "reopen", FALSE, FALSE, <<<<"open">>, <<"sleep">>>>)
      [] i.kind = "reg_fail" ->
            Did(g, "poll", TRUE, FALSE, <<<<"open">>, <<"register">>, <<"sleep">>>>)
      [] i.kind = "resume" -> Did(g, "poll", g.open, g.reg, <<>>)

\* read(size), lines 163-197: one input handled
ReadStep(g, i) ==
    CASE i.kind = "call_ok" -> Did(g, "poll", TRUE, TRUE, <<<<"open">>, <<"register">>>>)
      [] i.kind = "call_fail" -> Did(g, "OpenFailed", FALSE, FALSE, <<<<"open">>, <<"raise">>>>)
      [] i.kind = "timeout" -> Did(g, "poll", g.open, g.reg, <<<<"poll">>>>)
      [] i.kind = "in_stop" ->
            Did(g, "Closed", FALSE, FALSE,
                <<<<"poll">>, <<"unregister">>, <<"close">>, <<"return">>>>)
      [] i.kind = "in_text" ->
            Did(g, "yield", g.open, g.reg, <<<<"poll">>, <<"read">>, <<"yield">> \o i.text>>)
      [] i.kind \in {"in_empty", "in_raise"} ->
            Did(g, "poll", g.open, g.reg, <<<<"poll">>, <<"read">>>>)
      [] i.kind = "hup" ->
            Did(g, "reopen", FALSE, FALSE, <<<<"poll">>, <<"unregister">>, <<"close">>>>)
      [] i.kind = "err" -> Did(g, "poll", g.open, g.reg, <<<<"poll">>>>)
      [] i.kind = "open_ok" -> Did(g, "poll", TRUE, TRUE, <<<<"open">>, <<"register">>>>)
      [] i.kind = "open_fail" -> Did(g, "reopen", FALSE, FALSE, <<<<"open">>, <<"sleep">>>>)
      [] i.kind = "reg_fail" ->
            Did(g, "poll", TRUE, FALSE, <<<<"open">>, <<"register">>, <<"sleep">>>>)
      [] i.kind = "resume" -> Did(g, "poll", g.open, g.reg, <<>>)

\* readline(strip_line), lines 199-239: one input handled
ReadlineStep(g, i, strip_line) ==
    CASE i.kind = "call_ok" -> Did(g, "poll", TRUE, TRUE, <<<<"open">>, <<"register">>>>)
      [] i.kind = "call_fail" -> Did(g, "OpenFailed", FALSE, FALSE, <<<<"open">>, <<"raise">>>>)
      [] i.kind = "timeout" -> Did(g, "poll", g.open, g.reg, <<<<"poll">>>>)
      [] i.kind = "in_stop" ->
            Did(g, "Closed", FALSE, FALSE,
                <<<<"poll">>, <<"unregister">>, <<"close">>, <<"return">>>>)
      [] i.kind = "in_text" ->
            Did(g, "yield", g.open, g.reg,
                <<<<"poll">>, <<"readline">>, <<"yield">> \o read_line(i.text, strip_line)>>)
      [] i.kind \in {"in_empty", "in_raise"} ->
            Did(g, "poll", g.open, g.reg, <<<<"poll">>, <<"readline">>>>)
      [] i.kind = "hup" ->
            Did(g, "reopen", FALSE, FALSE, <<<<"poll">>, <<"unregister">>, <<"close">>>>)
      [] i.kind = "err" -> Did(g, "poll", g.open, g.reg, <<<<"poll">>>>)
      [] i.kind = "open_ok" -> Did(g, "poll", TRUE, TRUE, <<<<"open">>, <<"register">>>>)
      [] i.kind = "open_fail" -> Did(g, "reopen", FALSE, FALSE, <<<<"open">>, <<"sleep">>>>)
      [] i.kind = "reg_fail" ->
            Did(g, "poll", TRUE, FALSE, <<<<"open">>, <<"register">>, <<"sleep">>>>)
      [] i.kind = "resume" -> Did(g, "poll", g.open, g.reg, <<>>)

\* the generator is inside "while True" (lines 211-239)
LoopRunning == pc \in {"poll", "check", "cancel", "read", "yield", "hup", "reopen",
                       "sleep", "reopen_wait"}

\* ---- the kernel's view of the pipe ----
Writers == IF wpc = "idle" THEN 0 ELSE 1
ReaderWaiting == pc \in {"open_wait", "reopen_wait"}
Readers == Cardinality(openFds) + (IF ReaderWaiting THEN 1 ELSE 0)
\* events epoll reports for the read end
Mask == (IF pipe # <<>> THEN {"IN"} ELSE {}) \cup (IF Writers = 0 THEN {"HUP"} ELSE {})

\* file.readline() on the reader's file object: <<line, new buffer, new pipe>>.
\* It returns the first line of the buffer; with no newline buffered it drains the
\* kernel buffer, and at end of file (no writer) returns what it has.
ReadlineBlocked == ~HasNL(pybuf \o pipe) /\ Writers > 0
FileReadline ==
    IF HasNL(pybuf)
    THEN <<SubSeq(pybuf, 1, FirstNL(pybuf)),
           SubSeq(pybuf, FirstNL(pybuf) + 1, Len(pybuf)), pipe>>
    ELSE LET all == pybuf \o pipe IN
         IF HasNL(all)
         THEN <<SubSeq(all, 1, FirstNL(all)), SubSeq(all, FirstNL(all) + 1, Len(all)), <<>>>>
         ELSE <<all, <<>>, <<>>>>

Init ==
    /\ node \in {"missing", "fifo", "file"}
    /\ perm = IF node = "missing" THEN "none" ELSE "0o600"
    /\ ctor = "none"
    /\ createReq = FALSE
    /\ ctorMode = "none"
    /\ stop = FALSE
    /\ stopCalls = 0
    /\ stopInLoop = FALSE
    /\ pc = "init"
    /\ strip = FALSE
    /\ FIFO = 0
    /\ nfd = 0
    /\ openFds = {}
    /\ pollset = {}
    /\ event = {}
    /\ pybuf = <<>>
    /\ yielded = <<>>
    /\ wseen = FALSE
    /\ rseen = FALSE
    /\ wpc = "idle"
    /\ wline = <<>>
    /\ wpending = FALSE
    /\ wres = "none"
    /\ pipe = <<>>
    /\ written = <<>>
    /\ stopTimeout = FALSE
    /\ nUnreg = 0
    /\ nClose = 0
    /\ emptyRead = FALSE
    /\ yieldsAfterStop = 0
    /\ smCall = NoCall
    /\ smRes = "none"
    /\ lk = [rl |-> GenInit, rd |-> GenInit, strip_line |-> FALSE, steps |-> 0]

\* ---- __init__ ----
\* os.stat() raises only for a missing path; the value of S_ISFIFO is not used.
CtorResult(create, mode, mkfifoOk) ==
    IF node # "missing" THEN "ok"
    ELSE IF ~create THEN "NotAFifo"
    ELSE IF ~ValidMode(mode) THEN "InvalidMode"
    ELSE IF ~mkfifoOk THEN "OSError"
    ELSE "ok"

Construct(create, mode, mkfifoOk) ==
    /\ ctor = "none"
    /\ ctor' = CtorResult(create, mode, mkfifoOk)
    /\ createReq' = create
    /\ ctorMode' = IF node = "missing" /\ create THEN mode ELSE "none"
    /\ IF node = "missing" /\ ctor' = "ok"
       THEN node' = "fifo" /\ perm' = mode
       ELSE UNCHANGED <<node, perm>>
    /\ UNCHANGED <<auxVars, stopVars, rdVars, wrVars, hsVars, pipe, written, histVars>>

\* stop_reading() as it would be with a flag that flips instead of being set
StopReadingToggle ==
    /\ ctor = "ok"
    /\ stopCalls < MaxStopCalls
    /\ stop' = ~stop
    /\ stopCalls' = stopCalls + 1
    /\ stopInLoop' = IF stop THEN stopInLoop ELSE LoopRunning
    /\ UNCHANGED <<auxVars, fsVars, rdVars, wrVars, hsVars, pipe, written, histVars>>

\* ---- stop_reading ----
\* threading.Event.set()
StopReading ==
    /\ ctor = "ok"
    /\ stopCalls < MaxStopCalls
    /\ stop' = TRUE
    /\ stopCalls' = stopCalls + 1
    /\ stopInLoop' = IF stop THEN stopInLoop ELSE LoopRunning
    /\ UNCHANGED <<auxVars, fsVars, rdVars, wrVars, hsVars, pipe, written, histVars>>

\* ---- readline(): the generator ----
\* close() of read handle h: the descriptor leaves the epoll set, the file object's
\* buffer is dropped, and the kernel buffer goes with the last open handle.
CloseRead(h) ==
    /\ openFds' = openFds \ {h}
    /\ pollset' = pollset \ {h}
    /\ pybuf' = <<>>
    /\ pipe' = IF h \in openFds /\ Writers = 0 THEN <<>> ELSE pipe

\* open() has returned a new handle, which is registered in the epoll object
OpenAndRegister ==
    /\ wseen
    /\ wseen' = FALSE
    /\ nfd' = nfd + 1
    /\ FIFO' = nfd + 1
    /\ openFds' = openFds \cup {nfd + 1}
    /\ pollset' = pollset \cup {nfd + 1}
    /\ pybuf' = <<>>
    /\ nUnreg' = 0
    /\ nClose' = 0
    /\ event' = {}
    /\ pc' = "poll"

\* the blocking open for read begins: it has met a writer if one has the pipe open
BeginOpenRead ==
    /\ wseen' = (Writers > 0)
    /\ rseen' = IF wpc = "open_wait" THEN TRUE ELSE rseen

\* readline(strip_line) is called and its first open begins.  On a regular file
\* open() returns at once and epoll refuses the descriptor (EPERM).
ReadlineCall(s) ==
    /\ ctor = "ok"
    /\ pc = "init"
    /\ strip' = s
    /\ IF node = "fifo"
       THEN /\ pc' = "open_wait"
            /\ BeginOpenRead
            /\ UNCHANGED <<FIFO, nfd, openFds>>
       ELSE /\ pc' = "Raised"
            /\ nfd' = nfd + 1
            /\ FIFO' = nfd + 1
            /\ openFds' = openFds \cup {nfd + 1}
            /\ UNCHANGED hsVars
    /\ UNCHANGED <<auxVars, fsVars, stopVars, pollset, event, pybuf, yielded, wrVars, pipe,
                   written, histVars>>

\* the first open raises: FiFoFileError before the loop starts
ReadlineOpenFail(s) ==
    /\ ctor = "ok"
    /\ pc = "init"
    /\ strip' = s
    /\ pc' = "OpenFailed"
    /\ UNCHANGED <<auxVars, fsVars, stopVars, FIFO, nfd, openFds, pollset, event, pybuf, yielded,
                   wrVars, hsVars, pipe, written, histVars>>

ReadlineOpened ==
    /\ pc = "open_wait"
    /\ OpenAndRegister
    /\ UNCHANGED <<auxVars, fsVars, stopVars, strip, yielded, rseen, wrVars, pipe, written,
                   stopTimeout, emptyRead, yieldsAfterStop>>

\* where "for fd, event in events" goes for an event mask
Branch(mask) ==
    IF mask \cap {"IN", "PRI"} # {} THEN "check"
    ELSE IF "HUP" \in mask THEN "hup"
    ELSE "poll"

\* poll() returns an event of the registered descriptor
PollEvent ==
    /\ pc = "poll"
    /\ pollset # {}
    /\ Mask # {}
    /\ event' = Mask
    /\ pc' = Branch(Mask)
    /\ UNCHANGED <<auxVars, fsVars, stopVars, strip, FIFO, nfd, openFds, pollset, pybuf, yielded,
                   wrVars, hsVars, pipe, written, histVars>>

\* poll() waits polling_timeout and returns no event: the loop polls again
PollTimeout ==
    /\ pc = "poll"
    /\ pollset = {} \/ Mask = {}
    /\ stopTimeout' = (stopTimeout \/ stop)
    /\ UNCHANGED <<auxVars, fsVars, stopVars, rdVars, wrVars, hsVars, pipe, written, nUnreg, nClose,
                   emptyRead, yieldsAfterStop>>

\* poll() raises (an interrupt delivered to the polling thread): nothing catches it
PollInterrupt ==
    /\ pc = "poll"
    /\ pc' = "Raised"
    /\ UNCHANGED <<auxVars, fsVars, stopVars, strip, FIFO, nfd, openFds, pollset, event, pybuf,
                   yielded, wrVars, hsVars, pipe, written, histVars>>

\* the flag test as it would be if the flag were never looked at
CheckStopNever ==
    /\ pc = "check"
    /\ pc' = "read"
    /\ UNCHANGED <<auxVars, fsVars, stopVars, strip, FIFO, nfd, openFds, pollset, event, pybuf,
                   yielded, wrVars, hsVars, pipe, written, histVars>>

\* if self.__stop_event.is_set()
CheckStop ==
    /\ pc = "check"
    /\ pc' = IF stop THEN "cancel" ELSE "read"
    /\ UNCHANGED <<auxVars, fsVars, stopVars, strip, FIFO, nfd, openFds, pollset, event, pybuf,
                   yielded, wrVars, hsVars, pipe, written, histVars>>

\* the cancellation path as it would be if it cleared the flag for a later reuse
CancelReleaseClears ==
    /\ pc = "cancel"
    /\ nUnreg' = nUnreg + 1
    /\ nClose' = nClose + 1
    /\ CloseRead(FIFO)
    /\ pc' = "Closed"
    /\ event' = {}
    /\ stop' = FALSE
    /\ UNCHANGED <<auxVars, fsVars, stopCalls, stopInLoop, strip, FIFO, nfd, yielded, wrVars, hsVars, written,
                   stopTimeout, emptyRead, yieldsAfterStop>>

\* try: unregister  finally: close; return
CancelRelease ==
    /\ pc = "cancel"
    /\ nUnreg' = nUnreg + 1
    /\ nClose' = nClose + 1
    /\ CloseRead(FIFO)
    /\ pc' = "Closed"
    /\ event' = {}
    /\ UNCHANGED <<auxVars, fsVars, stopVars, strip, FIFO, nfd, yielded, wrVars, hsVars, written,
                   stopTimeout, emptyRead, yieldsAfterStop>>

\* the read step as it would be without "if not fifo_line: continue"
DeliverAny(line) ==
    /\ pc' = "yield"
    /\ event' = event
    /\ yielded' = Append(yielded, read_line(line, strip))
    /\ emptyRead' = (emptyRead \/ line = <<>>)
    /\ yieldsAfterStop' = yieldsAfterStop + (IF stop THEN 1 ELSE 0)

\* fifo_line = FIFO.readline(); an empty result continues, another is yielded
Deliver(line) ==
    IF line = <<>>
    THEN /\ pc' = "poll"
         /\ event' = {}
         /\ yielded' = yielded
         /\ emptyRead' = TRUE
         /\ yieldsAfterStop' = yieldsAfterStop
    ELSE /\ pc' = "yield"
         /\ event' = event
         /\ yielded' = Append(yielded, read_line(line, strip))
         /\ emptyRead' = emptyRead
         /\ yieldsAfterStop' = yieldsAfterStop + (IF stop THEN 1 ELSE 0)

FifoReadline ==
    /\ pc = "read"
    /\ ~ReadlineBlocked
    /\ Deliver(FileReadline[1])
    /\ pybuf' = FileReadline[2]
    /\ pipe' = FileReadline[3]
    /\ UNCHANGED <<auxVars, fsVars, stopVars, strip, FIFO, nfd, openFds, pollset, wrVars, hsVars,
                   written, stopTimeout, nUnreg, nClose>>

\* the generator leaves the yield: the consumer asks for the next item, or an
\* exception is thrown in at the yield and "except: continue" swallows it
YieldContinue ==
    /\ pc = "yield"
    /\ pc' = "poll"
    /\ event' = {}
    /\ UNCHANGED <<auxVars, fsVars, stopVars, strip, FIFO, nfd, openFds, pollset, pybuf, yielded,
                   wrVars, hsVars, pipe, written, histVars>>

\* the hangup branch as it would be if it released the handle and returned
HupReleaseReturns ==
    /\ pc = "hup"
    /\ nUnreg' = nUnreg + 1
    /\ nClose' = nClose + 1
    /\ CloseRead(FIFO)
    /\ FIFO' = 0
    /\ pc' = "Closed"
    /\ event' = {}
    /\ UNCHANGED <<auxVars, fsVars, stopVars, strip, nfd, yielded, wrVars, hsVars, written,
                   stopTimeout, emptyRead, yieldsAfterStop>>

\* the hangup branch as it would be without FIFO.close()
HupReleaseKeepsOpen ==
    /\ pc = "hup"
    /\ nUnreg' = nUnreg + 1
    /\ pollset' = pollset \ {FIFO}
    /\ FIFO' = 0
    /\ pc' = "reopen"
    /\ event' = {}
    /\ UNCHANGED <<auxVars, fsVars, stopVars, strip, nfd, openFds, pybuf, yielded, wrVars,
                   hsVars, pipe, written, stopTimeout, nClose, emptyRead, yieldsAfterStop>>

\* hangup: unregister, close, FIFO = False
HupRelease ==
    /\ pc = "hup"
    /\ nUnreg' = nUnreg + 1
    /\ nClose' = nClose + 1
    /\ CloseRead(FIFO)
    /\ FIFO' = 0
    /\ pc' = "reopen"
    /\ event' = {}
    /\ UNCHANGED <<auxVars, fsVars, stopVars, strip, nfd, yielded, wrVars, hsVars, written,
                   stopTimeout, emptyRead, yieldsAfterStop>>

\* the retry loop as it would be if it looked at the flag before each open
ReopenBeginChecksFlag ==
    /\ pc = "reopen"
    /\ IF stop
       THEN pc' = "Closed" /\ UNCHANGED hsVars
       ELSE pc' = "reopen_wait" /\ BeginOpenRead
    /\ UNCHANGED <<auxVars, fsVars, stopVars, strip, FIFO, nfd, openFds, pollset, event, pybuf,
                   yielded, wrVars, pipe, written, histVars>>

\* while FIFO is False: the open begins (and blocks until a writer attaches)
ReopenBegin ==
    /\ pc = "reopen"
    /\ pc' = "reopen_wait"
    /\ BeginOpenRead
    /\ UNCHANGED <<auxVars, fsVars, stopVars, strip, FIFO, nfd, openFds, pollset, event, pybuf,
                   yielded, wrVars, pipe, written, histVars>>

\* the open raises: except Exception: time.sleep(1)
ReopenFail ==
    /\ pc = "reopen"
    /\ pc' = "sleep"
    /\ UNCHANGED <<auxVars, fsVars, stopVars, strip, FIFO, nfd, openFds, pollset, event, pybuf,
                   yielded, wrVars, hsVars, pipe, written, histVars>>

\* the sleep ends and "while FIFO is False" is tested again
SleepDone ==
    /\ pc = "sleep"
    /\ pc' = IF FIFO = 0 THEN "reopen" ELSE "poll"
    /\ UNCHANGED <<auxVars, fsVars, stopVars, strip, FIFO, nfd, openFds, pollset, event, pybuf,
                   yielded, wrVars, hsVars, pipe, written, histVars>>

Reopened ==
    /\ pc = "reopen_wait"
    /\ OpenAndRegister
    /\ UNCHANGED <<auxVars, fsVars, stopVars, strip, yielded, rseen, wrVars, pipe, written,
                   stopTimeout, emptyRead, yieldsAfterStop>>

\* the open returns a new handle and poller.register() raises: the same except
\* clause sleeps, with FIFO already bound to the new, unregistered handle
ReopenRegisterFail ==
    /\ pc = "reopen_wait"
    /\ wseen
    /\ wseen' = FALSE
    /\ nfd' = nfd + 1
    /\ FIFO' = nfd + 1
    /\ openFds' = openFds \cup {nfd + 1}
    /\ pybuf' = <<>>
    /\ nUnreg' = 0
    /\ nClose' = 0
    /\ event' = {}
    /\ pc' = "sleep"
    /\ UNCHANGED <<auxVars, fsVars, stopVars, strip, pollset, yielded, rseen, wrVars, pipe,
                   written, stopTimeout, emptyRead, yieldsAfterStop>>

\* ---- __exit__ ----
\* stop_reading(), then self.__fifo.close(); an AttributeError (nothing opened yet)
\* is swallowed, and closing a closed file does nothing.
GeneratorIdle == pc \in {"init", "yield", "Closed", "Raised", "OpenFailed"}
Exit ==
    /\ ctor = "ok"
    /\ GeneratorIdle
    /\ stop' = TRUE
    /\ stopInLoop' = IF stop THEN stopInLoop ELSE LoopRunning
    /\ CloseRead(FIFO)
    /\ UNCHANGED <<auxVars, fsVars, stopCalls, pc, strip, FIFO, nfd, event, yielded, wrVars, hsVars,
                   written, histVars>>

\* ---- writeline(): the writer process ----
\* writeline(line, flush) is called and its open for write begins
WritelineCall(line) ==
    /\ ctor = "ok"
    /\ node = "fifo"
    /\ wpc = "idle"
    /\ Len(written) < MaxWrites
    /\ wpc' = "open_wait"
    /\ wline' = line
    /\ rseen' = (Readers > 0)
    /\ wseen' = IF ReaderWaiting THEN TRUE ELSE wseen
    /\ wres' = "none"
    /\ UNCHANGED <<auxVars, fsVars, stopVars, rdVars, wpending, pipe, written, histVars>>

\* _open_fifo(path, 'w') raises: FiFoFileError, nothing was opened
WritelineOpenFail ==
    /\ ctor = "ok"
    /\ wpc = "idle"
    /\ Len(written) < MaxWrites
    /\ wres' = "OpenFailed"
    /\ UNCHANGED <<auxVars, fsVars, stopVars, rdVars, wpc, wline, wpending, hsVars, pipe,
                   written, histVars>>

WriterOpened ==
    /\ wpc = "open_wait"
    /\ rseen
    /\ rseen' = FALSE
    /\ wpc' = "write"
    /\ UNCHANGED <<auxVars, fsVars, stopVars, rdVars, wline, wpending, wres, wseen, pipe,
                   written, histVars>>

\* FIFO.write(line) fills the file object's buffer; flush() writes it to the pipe,
\* and fails (EPIPE) when no reader has the pipe open: the except clause raises
\* FiFoFileError, which is pending while the finally clause runs
WriterWrite(flush) ==
    /\ wpc = "write"
    /\ wpc' = "close"
    /\ wres' = IF flush /\ Readers = 0 THEN "WriteFailed" ELSE wres
    /\ IF flush /\ Readers > 0
       THEN /\ pipe' = pipe \o wline
            /\ written' = Append(written, wline)
            /\ wpending' = FALSE
       ELSE /\ wpending' = TRUE
            /\ UNCHANGED <<pipe, written>>
    /\ UNCHANGED <<auxVars, fsVars, stopVars, rdVars, wline, hsVars, histVars>>

\* finally: FIFO.close() writes what the buffer still holds and closes the handle.
\* When that write fails, close() raises the OS error (BrokenPipeError) out of the
\* finally clause, in place of a pending FiFoFileError; the handle is closed anyway.
WriterClose ==
    /\ wpc = "close"
    /\ wpc' = "idle"
    /\ wres' = IF wpending /\ Readers = 0 THEN "BrokenPipeError"
               ELSE IF wres = "WriteFailed" THEN "WriteFailed"
               ELSE "ok"
    /\ wline' = <<>>
    /\ wpending' = FALSE
    /\ IF Readers = 0 THEN /\ pipe' = <<>>
                           /\ UNCHANGED written
       ELSE IF wpending THEN /\ pipe' = pipe \o wline
                             /\ written' = Append(written, wline)
       ELSE UNCHANGED <<pipe, written>>
    /\ UNCHANGED <<auxVars, fsVars, stopVars, rdVars, hsVars, histVars>>

\* ---- environment: another process reads the pipe ----
ForeignRead ==
    /\ pipe # <<>>
    /\ pipe' = <<>>
    /\ UNCHANGED <<auxVars, fsVars, stopVars, rdVars, wrVars, hsVars, written, histVars>>

\* ---- environment: poll reports an error event for the descriptor ----
PollError ==
    /\ pc = "poll"
    /\ pollset # {}
    /\ event' = {"ERR"}
    /\ pc' = Branch({"ERR"})
    /\ UNCHANGED <<auxVars, fsVars, stopVars, strip, FIFO, nfd, openFds, pollset, pybuf,
                   yielded, wrVars, hsVars, pipe, written, histVars>>

\* ---- the static methods ----
\* create_fifo_file() as it would be if it looked at the path before the mode
CreateResultExistsFirst(mode, raise_if_exists, os) ==
    IF raise_if_exists /\ node # "missing" THEN "AlreadyExists"
    ELSE IF node # "missing" THEN "False"
    ELSE IF ~ValidMode(mode) THEN "InvalidMode"
    ELSE IF os # "ok" THEN "CreateFailed"
    ELSE "True"

\* lines 91-106: the mode, then the path, then mkfifo and chmod
CreateResult(mode, raise_if_exists, os) ==
    IF ~ValidMode(mode) THEN "InvalidMode"
    ELSE IF raise_if_exists /\ node # "missing" THEN "AlreadyExists"
    ELSE IF node # "missing" THEN "False"
    ELSE IF os # "ok" THEN "CreateFailed"
    ELSE "True"

\* create_fifo_file(path, create_mode, raise_if_exists): os.mkfifo() makes the node
\* with the default permission and os.chmod() then sets create_mode
CreateFifoFile(mode, raise_if_exists, os) ==
    /\ smCall' = [op |-> "create_fifo_file", mode |-> mode,
                  raise_if_exists |-> raise_if_exists, os |-> os, node |-> node,
                  perm |-> perm]
    /\ smRes' = CreateResult(mode, raise_if_exists, os)
    /\ IF smRes' = "True" THEN node' = "fifo" /\ perm' = mode
       ELSE IF smRes' = "CreateFailed" /\ os = "chmod_fails"
            THEN node' = "fifo" /\ perm' = "default"
       ELSE UNCHANGED <<node, perm>>
    /\ UNCHANGED <<lk, ctor, createReq, ctorMode, stopVars, rdVars, wrVars, hsVars, pipe,
                   written, histVars>>

\* is_fifo_file(path): os.stat() raises only for a missing path; the value of
\* S_ISFIFO is not used
IsFifoFile ==
    /\ smCall' = [op |-> "is_fifo_file", mode |-> "none", raise_if_exists |-> FALSE,
                  os |-> "none", node |-> node, perm |-> perm]
    /\ smRes' = IF node = "missing" THEN "False" ELSE "True"
    /\ UNCHANGED <<lk, fsVars, stopVars, rdVars, wrVars, hsVars, pipe, written, histVars>>

\* environment: the path is removed, or a regular file is put there
EnvUnlink ==
    /\ node # "missing"
    /\ node' = "missing"
    /\ perm' = "none"
    /\ smCall' = NoCall
    /\ smRes' = "none"
    /\ UNCHANGED <<lk, ctor, createReq, ctorMode, stopVars, rdVars, wrVars, hsVars, pipe,
                   written, histVars>>

EnvMakeFile ==
    /\ node = "missing"
    /\ node' = "file"
    /\ perm' = "0o600"
    /\ smCall' = NoCall
    /\ smRes' = "none"
    /\ UNCHANGED <<lk, ctor, createReq, ctorMode, stopVars, rdVars, wrVars, hsVars, pipe,
                   written, histVars>>

\* ---- read(size) and readline(strip_line) side by side ----
\* both generators receive input i; strip_line is chosen when they are called
Drive(i, s) ==
    /\ lk.steps < MaxSteps
    /\ i \in InputsAt(lk.rl.pc)
    /\ s = IF lk.rl.pc = "init" THEN s ELSE lk.strip_line
    /\ lk' = [rl |-> ReadlineStep(lk.rl, i, s), rd |-> ReadStep(lk.rd, i),
              strip_line |-> s, steps |-> lk.steps + 1]
    /\ UNCHANGED <<smCall, smRes, fsVars, stopVars, rdVars, wrVars, hsVars, pipe, written,
                   histVars>>

Next ==
    \/ \E c \in BOOLEAN, m \in Modes, ok \in BOOLEAN : Construct(c, m, ok)
    \/ StopReading
    \/ Exit
    \/ \E s \in BOOLEAN : ReadlineCall(s)
    \/ \E s \in BOOLEAN : ReadlineOpenFail(s)
    \/ ReadlineOpened
    \/ PollEvent
    \/ PollTimeout
    \/ PollInterrupt
    \/ CheckStop
    \/ CancelRelease
    \/ FifoReadline
    \/ YieldContinue
    \/ HupRelease
    \/ ReopenBegin
    \/ ReopenFail
    \/ SleepDone
    \/ Reopened
    \/ ReopenRegisterFail
    \/ \E l \in Lines : WritelineCall(l)
    \/ WritelineOpenFail
    \/ WriterOpened
    \/ \E f \in BOOLEAN : WriterWrite(f)
    \/ WriterClose

Spec == Init /\ [][Next]_vars

NextForeign == Next \/ ForeignRead
SpecForeign == Init /\ [][NextForeign]_vars

NextErr == Next \/ PollError
SpecErr == Init /\ [][NextErr]_vars

NextStatic ==
    \/ \E m \in CreateModes, r \in BOOLEAN, os \in OsOutcomes : CreateFifoFile(m, r, os)
    \/ IsFifoFile
    \/ EnvUnlink
    \/ EnvMakeFile
SpecStatic == Init /\ [][NextStatic]_vars

NextSideBySide == \E i \in GenInputs, s \in BOOLEAN : Drive(i, s)
SpecSideBySide == Init /\ [][NextSideBySide]_vars

TypeOK ==
    /\ node \in {"missing", "fifo", "file"}
    /\ ctor \in {"none", "ok", "NotAFifo", "InvalidMode", "OSError"}
    /\ ctorMode \in Modes \cup {"none"}
    /\ wres \in {"none", "ok", "OpenFailed", "WriteFailed", "BrokenPipeError"}
    /\ smRes \in {"none", "True", "False", "InvalidMode", "AlreadyExists", "CreateFailed"}
    /\ lk.steps \in 0..MaxSteps
    /\ pc \in {"init", "open_wait", "OpenFailed", "poll", "check", "cancel", "read",
               "yield", "hup", "reopen", "sleep", "reopen_wait", "Closed", "Raised"}
    /\ wpc \in {"idle", "open_wait", "write", "close"}
    /\ pollset \subseteq openFds
    /\ FIFO \in 0..nfd
(***************************************************************************)
(* The claims.                                                             *)
(***************************************************************************)
Terminated(l) == l # <<>> /\ l[Len(l)] = NL /\ ~HasNL(SubSeq(l, 1, Len(l) - 1))

\* C1: once stop_reading() has set the flag while the loop runs, the loop has ended
\* and its descriptor is closed by the end of the next poll wait, also when that wait
\* ends by timeout with no event.
C1_StoppedByNextPoll == (stopInLoop /\ stopTimeout) => (pc = "Closed" /\ openFds = {})

\* C2: after a hangup, the line a new writer writes is yielded and the sequence has
\* not ended: once the reader has settled (it waits for a writer in the reopen, no
\* writeline in progress, no stop requested), the second line written is the second
\* item delivered.
ReaderSettled == pc = "reopen_wait" /\ ~wseen /\ wpc = "idle"
C2_ResumedLineYielded ==
    (/\ ReaderSettled
     /\ ~stop
     /\ ~strip
     /\ Len(written) >= 2
     /\ \A i \in 1..Len(written) : Terminated(written[i]))
    => (Len(yielded) >= 2 /\ yielded[2] = written[2])

\* C3: no data is lost across hangup and reopen: while the loop runs and no stop is
\* requested, everything written into the FIFO is either delivered, or still held in
\* the kernel buffer or in the buffer of the reader's file object.
C3_NoDataLost ==
    (LoopRunning /\ ~stop /\ ~strip)
    => Concat(yielded) \o pybuf \o pipe = Concat(written)

\* C4: the loop reaches Closed only from the cancellation path, entered by a
\* readable/priority event handled with the flag set; the timeout, hangup, failed
\* reopen, empty read and yield steps never end the sequence.
C4_ClosedOnlyByCancel ==
    [][/\ (pc' = "Closed" /\ pc # "Closed")
            => (pc = "cancel" /\ stop /\ event \cap {"IN", "PRI"} # {})
       /\ (pc = "check" /\ pc' = "cancel") => (stop /\ event \cap {"IN", "PRI"} # {})
       /\ (pc \in {"read", "yield", "hup", "reopen", "sleep", "reopen_wait"})
            => pc' \in LET running == {"poll", "check", "read", "yield", "hup", "reopen",
                                       "sleep", "reopen_wait"} IN running
       /\ (pc = "poll" /\ stopTimeout' # stopTimeout) => pc' = "poll"]_vars
C4_Witness == pc = "Closed" /\ nfd >= 2 /\ stopTimeout /\ yielded # <<>>

\* C5: wherever the loop on a FIFO has ended (cancellation, or an exception that
\* escaped), no descriptor it opened is still open or registered.
C5_EndedLoopReleased ==
    (node = "fifo" /\ pc \in {"Closed", "Raised"}) => (openFds = {} /\ pollset = {})

\* C6: round trip: writeline(L) and then one item pulled from readline gives L when
\* strip_line is true and L followed by a newline when it is false.
C6_RoundTrip ==
    (Len(written) = 1 /\ Len(yielded) = 1 /\ ~HasNL(written[1]))
    => yielded[1] = IF strip THEN written[1] ELSE written[1] \o <<NL>>

\* C7 as stated: no empty item is ever delivered to the consumer.
C7_NoEmptyItemEver == \A i \in 1..Len(yielded) : yielded[i] # <<>>
\* C7 as amended: a readable event whose read returns no text raises nothing, ends
\* nothing and yields nothing: the loop goes back to poll with its descriptor open
\* and registered, and the items delivered are unchanged.
C7_EmptyReadContinues ==
    [][(pc = "read" /\ pc' # "read" /\ FileReadline[1] = <<>>)
         => (/\ pc' = "poll"
             /\ yielded' = yielded
             /\ openFds' = openFds
             /\ pollset' = pollset)]_vars
C7_Witness == emptyRead /\ pc = "poll" /\ FIFO \in openFds /\ FIFO \in pollset

\* C8: stop_reading() is idempotent: a call sets the flag and changes nothing else, a
\* call made with the flag set changes nothing at all, and however the calls
\* interleave with the loop no handle is unregistered or closed more than once.
C8_StopIdempotent ==
    [][/\ (stopCalls' # stopCalls)
            => (/\ stop'
                /\ UNCHANGED <<fsVars, rdVars, wrVars, hsVars, pipe, written, histVars>>)
       /\ nUnreg' <= 1
       /\ nClose' <= 1]_vars
C8_Witness == stopCalls >= 2 /\ pc = "Closed" /\ nUnreg = 1 /\ nClose = 1

\* C9: the flag is unset after construction and, once set, stays set.
C9_FlagMonotonic == [][(ctor = "none" => ~stop') /\ (stop => stop')]_vars
C9_Witness == stop /\ pc = "reopen_wait" /\ nfd >= 1 /\ yielded # <<>>

\* C10: construction with create_if_not_exists=False on a path that is not a FIFO
\* (missing, or a regular file) fails with the not-a-fifo error.
C10_NonFifoRejected ==
    (ctor # "none" /\ ~createReq /\ node # "fifo") => ctor = "NotAFifo"

\* C11: construction with create_if_not_exists=True on a missing path: an invalid
\* octal mode fails with the invalid-mode error and creates nothing; a valid mode
\* either succeeds, leaving a FIFO with that permission, or, when the OS refuses to
\* create the node, fails with the library's create-failed error.
C11_AutoCreate ==
    (ctor # "none" /\ createReq /\ ctorMode # "none")
    => IF ~ValidMode(ctorMode)
       THEN ctor = "InvalidMode" /\ node = "missing"
       ELSE \/ ctor = "ok" /\ node = "fifo" /\ perm = ctorMode
            \/ ctor = "CreateFailed" /\ node = "missing"

\* C12: create_fifo_file: an invalid mode fails with the invalid-mode error and the
\* path is untouched; an existing path gives the already-exists error when
\* raise_if_exists is true and False otherwise, the node unchanged either way; a
\* missing path gets a FIFO with the given mode and True is returned, or the call
\* fails with the create-failed error when the OS refuses.
C12_CreateFifoFile ==
    smCall.op = "create_fifo_file"
    => IF ~ValidMode(smCall.mode)
       THEN smRes = "InvalidMode" /\ node = smCall.node /\ perm = smCall.perm
       ELSE IF smCall.node # "missing"
       THEN /\ smRes = IF smCall.raise_if_exists THEN "AlreadyExists" ELSE "False"
            /\ node = smCall.node
            /\ perm = smCall.perm
       ELSE IF smCall.os = "ok"
       THEN smRes = "True" /\ node = "fifo" /\ perm = smCall.mode
       ELSE smRes = "CreateFailed"
C12_Witness ==
    /\ smCall.op = "create_fifo_file"
    /\ smCall.node = "missing"
    /\ smRes = "True"
    /\ node = "fifo"
    /\ perm = "0o666"

\* C13: is_fifo_file returns True exactly when the path is an existing FIFO, and
\* False for a missing path and for a node of another type; it raises nothing.
C13_IsFifoFile ==
    smCall.op = "is_fifo_file"
    => (/\ smRes \in {"True", "False"}
        /\ smRes = "True" <=> smCall.node = "fifo")

\* C14: every failure of writeline(), with flush true or false, reaches the caller
\* as the library's error (the open error, or the write error wrapping the OS error
\* raised at write, flush or close), and the write handle is closed.
C14_WriteFailuresWrapped ==
    (wpc = "idle" /\ wres \notin {"none", "ok"})
    => (wres \in {"OpenFailed", "WriteFailed"} /\ Writers = 0)

\* C15: whenever the loop waits in poll (no stop requested), the poll set holds
\* exactly the descriptor of the live read handle: never a closed or replaced one,
\* never none, also after a reopen in which the open or the register failed.
C15_PollSetIsLiveHandle ==
    (pc = "poll" /\ ~stop) => (pollset = {FIFO} /\ FIFO \in openFds)

\* C16: the loop holds at most one open read descriptor at any time: a handle is
\* opened only when none is open, whatever hangups and failed reopen attempts
\* came before.
C16_AtMostOneOpen ==
    [][/\ Cardinality(openFds') <= 1
       /\ (nfd' # nfd) => (openFds = {} /\ openFds' = {nfd'})]_vars
C16_Witness == pc = "sleep" /\ FIFO # 0 /\ nfd >= 2 /\ openFds = {FIFO}

\* C17: an error event (the error bit without the readable and priority bits) takes
\* the hangup path: unregister, close, reopen, register, before polling resumes.
C17_ErrorHandledAsHangup == (event = {"ERR"}) => pc = "hup"

\* C18: read(size) and readline(strip_line=False), given the same inputs, stand at
\* the same position with the same handle state and have performed the same
\* operations and yielded the same items, the read primitive being the one
\* difference.
SameOps(a, b) ==
    /\ Len(a) = Len(b)
    /\ \A k \in 1..Len(a) : a[k] = b[k] \/ (a[k] = <<"readline">> /\ b[k] = <<"read">>)
SameGen(a, b) == a.pc = b.pc /\ a.open = b.open /\ a.reg = b.reg /\ SameOps(a.ops, b.ops)
C18_SameStateMachine == ~lk.strip_line => SameGen(lk.rl, lk.rd)
C18_Witness ==
    /\ ~lk.strip_line
    /\ lk.rd.pc = "poll"
    /\ lk.rd.reg
    /\ \E j, k \in 1..Len(lk.rd.ops) :
          j < k /\ lk.rd.ops[j] = <<"yield", " ", "b", NL>> /\ lk.rd.ops[k] = <<"close">>

\* C19: the reopen retry does not look at the flag: it is left only with a handle
\* that an open returned, it waits as long as no writer attaches, and it never
\* goes to Closed, also when a stop was requested while the pipe was hung up.
InRetry == pc \in {"reopen", "sleep", "reopen_wait"}
C19_RetryIgnoresFlag ==
    [][/\ InRetry => (pc' = "poll" \/ InRetry')
       /\ (InRetry /\ pc' = "poll") => (FIFO' = nfd' /\ FIFO' \in openFds')
       /\ (pc = "reopen_wait" /\ ~wseen) => pc' = "reopen_wait"]_vars
C19_Witness == stop /\ stopInLoop /\ ReaderSettled /\ nClose = 1 /\ stopTimeout

\* C20: however stop_reading() interleaves with the loop, at most one item is
\* yielded with the flag set, and only by a read whose flag test came before the
\* flag was set; a readable event handled with the flag set leads to Closed with
\* nothing read and nothing yielded, and nothing is yielded after Closed.
C20_AtMostOneAfterStop ==
    [][/\ yieldsAfterStop' <= 1
       /\ (yieldsAfterStop' # yieldsAfterStop) => (pc = "read" /\ stop)
       /\ (pc = "check" /\ stop) => pc' \in {"check", "cancel"}
       /\ (pc \in {"check", "cancel", "Closed"} /\ stop)
            => (yielded' = yielded /\ pipe' \in {pipe, <<>>} \cup {pipe \o l : l \in Lines})
       /\ (pc \in {"cancel", "Closed"}) => pc' \in {pc, "Closed"}]_vars
C20_Witness == yieldsAfterStop = 1 /\ pc = "Closed" /\ Len(yielded) = 1
====
